---- MODULE Spec2Model ----
(***************************************************************************)
(* Model of ios_shell/parsing.py: the section body parser get_section,     *)
(* the data block reader get_data, and the absolute-time parser            *)
(* utils.to_iso exercised by tests/utils_test.py.                          *)
(*                                                                         *)
(* A Python str is a sequence of one-character strings.                    *)
(***************************************************************************)
EXTENDS Integers, Sequences, FiniteSets, TLC

VARIABLES
    contents,       \* the `contents` argument (get_section, get_data)
    section_name,   \* the `section_name` argument of get_section
    rest,           \* local `rest`
    pc,             \* position in the running function
    err,            \* which raise ended the call ("" while none)
    section_info,   \* local dict `section_info`
    table_name,     \* local `table_name`
    array_name,     \* local `array_name`
    column_names,   \* local `column_names`
    mask,           \* local `mask`
    remarks,        \* local `remarks`
    occ,            \* history: one entry per key occurrence, with the value it produced
    remark_src,     \* history: `rest` when the $REMARKS marker was matched
    records,        \* the `records` argument of get_data
    data,           \* the `data` result of get_data
    time,           \* the argument of utils.to_iso
    time_info,      \* the result of utils.to_iso
    written         \* history: the zone, date and time the argument was written from

vars == <<contents, section_name, rest, pc, err, section_info, table_name,
          array_name, column_names, mask, remarks, occ, remark_src,
          records, data, time, time_info, written>>

sectionVars == <<section_name, section_info, table_name, array_name,
                 column_names, mask, remarks, occ, remark_src>>
dataVars == <<records, data>>
isoVars == <<time, time_info, written>>

-----------------------------------------------------------------------------
(* Bounds *)

MaxBlocks == 2
MaxDataLines == 3
MaxRecords == 3

-----------------------------------------------------------------------------
(* Python str primitives *)

NL == "\n"

WS == {" ", "\n", "\t", "\r"}

LowerCase == <<"a","b","c","d","e","f","g","h","i","j","k","l","m",
               "n","o","p","q","r","s","t","u","v","w","x","y","z">>
UpperCase == <<"A","B","C","D","E","F","G","H","I","J","K","L","M",
               "N","O","P","Q","R","S","T","U","V","W","X","Y","Z">>

Letters == 1..26

UpperChars == {UpperCase[i] : i \in Letters}

upperChar(c) ==
    IF \E i \in Letters : LowerCase[i] = c
    THEN UpperCase[CHOOSE i \in Letters : LowerCase[i] = c]
    ELSE c

lowerChar(c) ==
    IF \E i \in Letters : UpperCase[i] = c
    THEN LowerCase[CHOOSE i \in Letters : UpperCase[i] = c]
    ELSE c

upper(s) == [i \in 1..Len(s) |-> upperChar(s[i])]

lower(s) == [i \in 1..Len(s) |-> lowerChar(s[i])]

Drop(s, n) == SubSeq(s, n + 1, Len(s))

RECURSIVE lstrip(_)
lstrip(s) ==
    IF s = <<>> THEN s
    ELSE IF Head(s) \in WS THEN lstrip(Tail(s)) ELSE s

RECURSIVE rstrip(_)
rstrip(s) ==
    IF s = <<>> THEN s
    ELSE IF s[Len(s)] \in WS THEN rstrip(SubSeq(s, 1, Len(s) - 1)) ELSE s

strip(s) == lstrip(rstrip(s))

startswith(s, p) == Len(s) >= Len(p) /\ SubSeq(s, 1, Len(p)) = p

\* index of the first occurrence of character c in s, 0 when absent
Find(s, c) ==
    IF \E i \in 1..Len(s) : s[i] = c
    THEN CHOOSE i \in 1..Len(s) : s[i] = c /\ \A j \in 1..(i - 1) : s[j] # c
    ELSE 0

\* s.split(c, 1): one part when c is absent, two otherwise
Split1(s, c) ==
    LET i == Find(s, c)
    IN  IF i = 0 THEN <<s>>
        ELSE <<SubSeq(s, 1, i - 1), Drop(s, i)>>

RECURSIVE split(_, _)
split(s, c) ==
    LET i == Find(s, c)
    IN  IF i = 0 THEN <<s>>
        ELSE <<SubSeq(s, 1, i - 1)>> \o split(Drop(s, i), c)

RECURSIVE join(_, _)
join(sep, parts) ==
    IF parts = <<>> THEN <<>>
    ELSE IF Len(parts) = 1 THEN parts[1]
    ELSE parts[1] \o sep \o join(sep, Tail(parts))

replace(s, a, b) == [i \in 1..Len(s) |-> IF s[i] = a THEN b ELSE s[i]]

\* rest.split("\n", 1) whose second part is the whole of `rest` again
_next_line_rereads(r) ==
    IF Find(r, NL) = 0 THEN <<r>> ELSE <<Split1(r, NL)[1], r>>

_next_line(r) == Split1(r, NL)

-----------------------------------------------------------------------------
(* utils: section heading detection and the column mask engine *)

is_section_heading(s) ==
    /\ Len(s) >= 2
    /\ s[1] = "*"
    /\ s[2] \in UpperChars

\* the half-open ranges [start, end) of the maximal runs of marked positions,
\* as pairs of 1-based inclusive bounds, left to right
RECURSIVE MaskRanges(_, _)
MaskRanges(m, from) ==
    IF \A i \in from..Len(m) : ~m[i] THEN <<>>
    ELSE LET s == CHOOSE i \in from..Len(m) :
                      m[i] /\ \A j \in from..(i - 1) : ~m[j]
             e == CHOOSE i \in s..Len(m) :
                      /\ \A j \in s..i : m[j]
                      /\ (i = Len(m) \/ ~m[i + 1])
         IN  <<<<s, e>>>> \o MaskRanges(m, e + 1)

Min(a, b) == IF a < b THEN a ELSE b

apply_column_mask(line, m) ==
    LET rs == MaskRanges(m, 1)
    IN  [k \in 1..Len(rs) |->
            strip(SubSeq(line, rs[k][1], Min(rs[k][2], Len(line))))]

-----------------------------------------------------------------------------
(* keys.REMARKS and the dict operations of get_section *)

REMARKS == <<"r","e","m","a","r","k","s">>

Scalar(s) == [kind |-> "scalar", text |-> s, items |-> <<>>]
Table(rows) == [kind |-> "table", text |-> <<>>, items |-> rows]
Array(ls) == [kind |-> "array", text |-> <<>>, items |-> ls]
Remarks(s) == [kind |-> "remarks", text |-> s, items |-> <<>>]

ValEq(a, b) == a.kind = b.kind /\ a.text = b.text /\ a.items = b.items

EmptyDict == [k \in {} |-> Scalar(<<>>)]

\* d.setdefault(key, value): an existing key keeps its value
DictSetFirstWins(d, key, value) ==
    [k \in DOMAIN d \cup {key} |-> IF k \in DOMAIN d THEN d[k] ELSE value]

\* d[key] = value
DictSet(d, key, value) ==
    [k \in DOMAIN d \cup {key} |-> IF k = key THEN value ELSE d[k]]

\* d[key].append(item)
DictAppend(d, key, item) ==
    [d EXCEPT ![key] = [@ EXCEPT !.items = Append(@, item)]]

\* the dict comprehension of a table row
RowDict(names, values) ==
    [n \in {names[i] : i \in 1..Min(Len(names), Len(values))} |->
        values[CHOOSE i \in 1..Len(values) :
                   /\ names[i] = n
                   /\ \A j \in (i + 1)..Len(values) : names[j] # n]]

\* history of key occurrences
OccNew(o, key, value) == Append(o, [key |-> key, val |-> value])
OccAppend(o, item) ==
    [o EXCEPT ![Len(o)] = [@ EXCEPT !.val = [@ EXCEPT !.items = Append(@, item)]]]

-----------------------------------------------------------------------------
(* Literals of get_section *)

TABLE_TOKEN == <<"$","T","A","B","L","E",":"," ">>
ARRAY_TOKEN == <<"$","A","R","R","A","Y",":"," ">>
REMARK_TOKEN == <<"$","R","E","M","A","R","K">>
END_TOKEN == <<"$","E","N","D">>

\* re.match(token + r"([^\n]+)\n", r): <<matched, group 1, m.end()>>
MatchNamed(token, r) ==
    LET after == Drop(r, Len(token))
        i == Find(after, NL)
    IN  IF startswith(r, token) /\ i >= 2
        THEN <<TRUE, SubSeq(after, 1, i - 1), Len(token) + i>>
        ELSE <<FALSE, <<>>, 0>>

\* re.match(r"\$REMARKS?", r): <<matched, m.end()>>
MatchRemarks(r) ==
    IF startswith(r, REMARK_TOKEN)
    THEN IF Len(r) > Len(REMARK_TOKEN) /\ r[Len(REMARK_TOKEN) + 1] = "S"
         THEN <<TRUE, Len(REMARK_TOKEN) + 1>>
         ELSE <<TRUE, Len(REMARK_TOKEN)>>
    ELSE <<FALSE, 0>>

-----------------------------------------------------------------------------
(* get_section *)

Raise(e) ==
    /\ pc' = "error"
    /\ err' = e

\* lines 42-49 with the prefix built from section_name as given
GetSectionStartNoUpper ==
    /\ pc = "start"
    /\ LET r == lstrip(contents)
           prefix == <<"*">> \o section_name \o <<NL>>
       IN  IF ~startswith(r, prefix)
           THEN /\ Raise("MissingSection")
                /\ rest' = r
           ELSE /\ rest' = Drop(r, Len(prefix))
                /\ pc' = "LINE_START"
                /\ err' = err
    /\ section_info' = EmptyDict
    /\ UNCHANGED <<contents, section_name, table_name, array_name, column_names,
                   mask, remarks, occ, remark_src, dataVars, isoVars>>

\* lines 42-49
GetSectionStart ==
    /\ pc = "start"
    /\ LET r == lstrip(contents)
           prefix == <<"*">> \o upper(section_name) \o <<NL>>
       IN  IF ~startswith(r, prefix)
           THEN /\ Raise("MissingSection")
                /\ rest' = r
           ELSE /\ rest' = Drop(r, Len(prefix))
                /\ pc' = "LINE_START"
                /\ err' = err
    /\ section_info' = EmptyDict
    /\ UNCHANGED <<contents, section_name, table_name, array_name, column_names,
                   mask, remarks, occ, remark_src, dataVars, isoVars>>

\* lines 50, 104 with the heading line taken off the remainder
ReturnConsumesHeading ==
    /\ pc = "LINE_START"
    /\ is_section_heading(lstrip(rest))
    /\ pc' = "done"
    /\ rest' = LET nl == _next_line(lstrip(rest))
               IN  IF Len(nl) < 2 THEN <<>> ELSE nl[2]
    /\ UNCHANGED <<contents, err, sectionVars, dataVars, isoVars>>

\* lines 50, 104
Return ==
    /\ pc = "LINE_START"
    /\ is_section_heading(lstrip(rest))
    /\ pc' = "done"
    /\ UNCHANGED <<contents, rest, err, sectionVars, dataVars, isoVars>>

\* lines 50-55
Comment ==
    /\ pc = "LINE_START"
    /\ ~is_section_heading(lstrip(rest))
    /\ LET r == lstrip(rest)
           nl == _next_line(r)
       IN  /\ startswith(r, <<"!">>)
           /\ IF Len(nl) < 2
              THEN Raise("Unpack") /\ rest' = r
              ELSE rest' = nl[2] /\ UNCHANGED <<pc, err>>
    /\ UNCHANGED <<contents, sectionVars, dataVars, isoVars>>

\* lines 56-72
TableStart ==
    /\ pc = "LINE_START"
    /\ ~is_section_heading(lstrip(rest))
    /\ LET r == lstrip(rest)
           m == MatchNamed(TABLE_TOKEN, r)
           name == lower(m[2])
           r1 == Drop(r, m[3])
           nl1 == _next_line(r1)
           nl2 == _next_line(nl1[2])
           msk == [i \in 1..Len(nl2[1]) |-> nl2[1][i] = "-"]
           names == LET vs == apply_column_mask(nl1[1], msk)
                    IN  [i \in 1..Len(vs) |-> replace(strip(lower(vs[i])), " ", "_")]
       IN  /\ ~startswith(r, <<"!">>)
           /\ m[1]
           /\ IF Len(nl1) < 2
              THEN /\ Raise("Unpack") /\ rest' = r1
                   /\ UNCHANGED <<section_info, table_name, column_names, mask, occ>>
              ELSE IF Len(nl2) < 2
              THEN /\ Raise("Unpack") /\ rest' = nl1[2]
                   /\ table_name' = name
                   /\ UNCHANGED <<section_info, column_names, mask, occ>>
              ELSE /\ rest' = nl2[2]
                   /\ table_name' = name
                   /\ mask' = msk
                   /\ column_names' = names
                   /\ section_info' = DictSet(section_info, name, Table(<<>>))
                   /\ occ' = OccNew(occ, name, Table(<<>>))
                   /\ pc' = "TABLE_BODY"
                   /\ err' = err
    /\ UNCHANGED <<contents, section_name, array_name, remarks, remark_src,
                   dataVars, isoVars>>

\* lines 73-80
TableRow ==
    /\ pc = "TABLE_BODY"
    /\ ~startswith(lstrip(rest), END_TOKEN)
    /\ LET nl == _next_line(rest)
           row == RowDict(column_names, apply_column_mask(nl[1], mask))
       IN  IF Len(nl) < 2
           THEN /\ Raise("Unpack")
                /\ UNCHANGED <<rest, section_info, occ>>
           ELSE /\ rest' = nl[2]
                /\ section_info' = DictAppend(section_info, table_name, row)
                /\ occ' = OccAppend(occ, row)
                /\ UNCHANGED <<pc, err>>
    /\ UNCHANGED <<contents, section_name, table_name, array_name, column_names,
                   mask, remarks, remark_src, dataVars, isoVars>>

\* `_, rest = _next_line(rest.lstrip())` once the block's $END is next
ConsumeEnd ==
    LET nl == _next_line(lstrip(rest))
    IN  IF Len(nl) < 2
        THEN Raise("Unpack") /\ rest' = lstrip(rest)
        ELSE rest' = nl[2] /\ pc' = "LINE_START" /\ err' = err

\* lines 73, 81
TableEnd ==
    /\ pc = "TABLE_BODY"
    /\ startswith(lstrip(rest), END_TOKEN)
    /\ ConsumeEnd
    /\ UNCHANGED <<contents, sectionVars, dataVars, isoVars>>

\* lines 82-85
ArrayStart ==
    /\ pc = "LINE_START"
    /\ ~is_section_heading(lstrip(rest))
    /\ LET r == lstrip(rest)
           m == MatchNamed(ARRAY_TOKEN, r)
           name == lower(m[2])
       IN  /\ ~startswith(r, <<"!">>)
           /\ ~MatchNamed(TABLE_TOKEN, r)[1]
           /\ m[1]
           /\ rest' = Drop(r, m[3])
           /\ array_name' = name
           /\ section_info' = DictSet(section_info, name, Array(<<>>))
           /\ occ' = OccNew(occ, name, Array(<<>>))
           /\ pc' = "ARRAY_BODY"
    /\ UNCHANGED <<contents, section_name, err, table_name, column_names, mask,
                   remarks, remark_src, dataVars, isoVars>>

\* lines 86-88
ArrayLine ==
    /\ pc = "ARRAY_BODY"
    /\ ~startswith(lstrip(rest), END_TOKEN)
    /\ LET nl == _next_line(rest)
       IN  IF Len(nl) < 2
           THEN /\ Raise("Unpack")
                /\ UNCHANGED <<rest, section_info, occ>>
           ELSE /\ rest' = nl[2]
                /\ section_info' = DictAppend(section_info, array_name, nl[1])
                /\ occ' = OccAppend(occ, nl[1])
                /\ UNCHANGED <<pc, err>>
    /\ UNCHANGED <<contents, section_name, table_name, array_name, column_names,
                   mask, remarks, remark_src, dataVars, isoVars>>

\* lines 86, 89
ArrayEnd ==
    /\ pc = "ARRAY_BODY"
    /\ startswith(lstrip(rest), END_TOKEN)
    /\ ConsumeEnd
    /\ UNCHANGED <<contents, sectionVars, dataVars, isoVars>>

\* lines 90-93
RemarksStart ==
    /\ pc = "LINE_START"
    /\ ~is_section_heading(lstrip(rest))
    /\ LET r == lstrip(rest)
           m == MatchRemarks(r)
       IN  /\ ~startswith(r, <<"!">>)
           /\ ~MatchNamed(TABLE_TOKEN, r)[1]
           /\ ~MatchNamed(ARRAY_TOKEN, r)[1]
           /\ m[1]
           /\ rest' = Drop(r, m[2])
           /\ remark_src' = r
           /\ remarks' = <<>>
           /\ pc' = "REMARKS_BODY"
    /\ UNCHANGED <<contents, section_name, err, section_info, table_name,
                   array_name, column_names, mask, occ, dataVars, isoVars>>

\* lines 94-96
RemarksLine ==
    /\ pc = "REMARKS_BODY"
    /\ ~startswith(lstrip(rest), END_TOKEN)
    /\ LET nl == _next_line(rest)
       IN  IF Len(nl) < 2
           THEN /\ Raise("Unpack")
                /\ UNCHANGED <<rest, remarks>>
           ELSE /\ rest' = nl[2]
                /\ remarks' = Append(remarks, nl[1])
                /\ UNCHANGED <<pc, err>>
    /\ UNCHANGED <<contents, section_name, section_info, table_name, array_name,
                   column_names, mask, occ, remark_src, dataVars, isoVars>>

\* lines 94, 97-98
RemarksEnd ==
    /\ pc = "REMARKS_BODY"
    /\ startswith(lstrip(rest), END_TOKEN)
    /\ section_info' = DictSet(section_info, REMARKS, Remarks(join(<<NL>>, remarks)))
    /\ occ' = OccNew(occ, REMARKS, Remarks(join(<<NL>>, remarks)))
    /\ ConsumeEnd
    /\ UNCHANGED <<contents, section_name, table_name, array_name, column_names,
                   mask, remarks, remark_src, dataVars, isoVars>>

\* lines 99-103
SimpleEntry ==
    /\ pc = "LINE_START"
    /\ ~is_section_heading(lstrip(rest))
    /\ LET r == lstrip(rest)
           nl == _next_line(r)
           kv == Split1(nl[1], ":")
       IN  /\ ~startswith(r, <<"!">>)
           /\ ~MatchNamed(TABLE_TOKEN, r)[1]
           /\ ~MatchNamed(ARRAY_TOKEN, r)[1]
           /\ ~MatchRemarks(r)[1]
           /\ IF Len(nl) < 2
              THEN /\ Raise("Unpack") /\ rest' = r
                   /\ UNCHANGED <<section_info, occ>>
              ELSE IF Len(kv) < 2
              THEN /\ Raise("MalformedLine") /\ rest' = nl[2]
                   /\ UNCHANGED <<section_info, occ>>
              ELSE /\ rest' = nl[2]
                   /\ section_info' =
                          DictSet(section_info, lower(strip(kv[1])), Scalar(strip(kv[2])))
                   /\ occ' = OccNew(occ, lower(strip(kv[1])), Scalar(strip(kv[2])))
                   /\ UNCHANGED <<pc, err>>
    /\ UNCHANGED <<contents, section_name, table_name, array_name, column_names,
                   mask, remarks, remark_src, dataVars, isoVars>>

-----------------------------------------------------------------------------
(* Inputs of get_section: an opening heading line, up to MaxBlocks body      *)
(* constructs, and what follows the body.                                    *)

Entry1 == <<"A",":"," ","1",NL>>
Entry2 == <<" ","a"," ",":","2",NL>>
CommentLine == <<"!","c",NL>>
BlankLine == <<NL>>
TableBlock == <<"$","T","A","B","L","E",":"," ","T",NL,"N"," "," ","L",NL,"-","-"," ","-",NL,"x"," "," ","y",NL,"$","E","N","D",NL>>
TableNoFill == <<"$","T","A","B","L","E",":"," ","T",NL,"N",NL," "," ",NL,"x",NL,"$","E","N","D",NL>>
TableEmptyMask == <<"$","T","A","B","L","E",":"," ","T",NL,"N",NL,NL,"x",NL,"$","E","N","D",NL>>
ArrayBlock == <<"$","A","R","R","A","Y",":"," ","A",NL,"v",NL,"$","E","N","D",NL>>
RemarksBlock == <<"$","R","E","M","A","R","K","S",NL,"f","o","o",NL,"$","E","N","D",NL>>
RemarkEmpty == <<"$","R","E","M","A","R","K",NL,"$","E","N","D",NL>>
NoColon == <<"f","o","o",NL>>
ArrayUnclosed == <<"$","A","R","R","A","Y",":"," ","A",NL,"v",NL>>

HeadUpper == <<"*","F","I","L","E",NL>>
HeadLower == <<"*","f","i","l","e",NL>>
HeadIndented == <<" ",NL,"*","F","I","L","E",NL>>
HeadOther == <<"*","F","I","L","E","S",NL>>

TailHeading == <<"*","E","N","D",NL>>
TailIndented == <<" ","*","E","N","D",NL>>
TailEmpty == <<>>
TailNoNewline == <<"A",":"," ","1">>

NameLower == <<"f","i","l","e">>
NameUpper == <<"F","I","L","E">>

Blocks == {Entry1, Entry2, CommentLine, BlankLine, TableBlock, TableNoFill, TableEmptyMask, ArrayBlock, RemarksBlock, RemarkEmpty, NoColon, ArrayUnclosed}

Heads == {HeadUpper, HeadLower, HeadIndented, HeadOther}

Tails == {TailHeading, TailIndented, TailEmpty, TailNoNewline}

SectionNames == {NameLower, NameUpper}

RECURSIVE Bodies(_)
Bodies(n) ==
    IF n = 0 THEN {<<>>}
    ELSE LET shorter == Bodies(n - 1)
         IN  shorter \cup {b \o p : b \in Blocks, p \in shorter}

NoTime == [present |-> FALSE, year |-> 0, month |-> 0, day |-> 0,
           hour |-> 0, minute |-> 0, second |-> 0, utcoffset |-> 0]

NothingWritten == [form |-> "none"]

Init ==
    /\ section_name \in SectionNames
    /\ contents \in {h \o b \o t : h \in Heads, b \in Bodies(MaxBlocks), t \in Tails}
    /\ rest = <<>>
    /\ pc = "start"
    /\ err = ""
    /\ section_info = EmptyDict
    /\ table_name = <<>>
    /\ array_name = <<>>
    /\ column_names = <<>>
    /\ mask = <<>>
    /\ remarks = <<>>
    /\ occ = <<>>
    /\ remark_src = <<>>
    /\ records = 0
    /\ data = <<>>
    /\ time = <<>>
    /\ time_info = NoTime
    /\ written = NothingWritten

Next ==
    \/ GetSectionStart
    \/ Return
    \/ Comment
    \/ TableStart
    \/ TableRow
    \/ TableEnd
    \/ ArrayStart
    \/ ArrayLine
    \/ ArrayEnd
    \/ RemarksStart
    \/ RemarksLine
    \/ RemarksEnd
    \/ SimpleEntry

Spec == Init /\ [][Next]_vars

-----------------------------------------------------------------------------
(* get_data *)

END_OF_HEADER == <<"*","E","N","D"," ","O","F"," ","H","E","A","D","E","R",NL>>

\* `while "" in lines: lines.remove("")`, taking only the first one out
RemoveFirstEmpty(lines) ==
    IF \E i \in 1..Len(lines) : lines[i] = <<>>
    THEN LET i == CHOOSE k \in 1..Len(lines) :
                      lines[k] = <<>> /\ \A j \in 1..(k - 1) : lines[j] # <<>>
         IN  SubSeq(lines, 1, i - 1) \o SubSeq(lines, i + 1, Len(lines))
    ELSE lines

\* `while "" in lines: lines.remove("")`
RECURSIVE RemoveEmpty(_)
RemoveEmpty(lines) ==
    IF lines = <<>> THEN <<>>
    ELSE IF Head(lines) = <<>> THEN RemoveEmpty(Tail(lines))
    ELSE <<Head(lines)>> \o RemoveEmpty(Tail(lines))

\* _postprocess_line(reader.read(line)): the record decoded from one line
ReadRecord(line) == [source |-> line]

\* lines[:n] and lines[n:] for n >= 0
Take(lines, n) == SubSeq(lines, 1, Min(n, Len(lines)))
After(lines, n) == SubSeq(lines, Min(n, Len(lines)) + 1, Len(lines))

\* lines 359-368
GetData ==
    /\ pc = "start"
    /\ LET r == lstrip(contents)
           lines == RemoveEmpty(split(Drop(r, Len(END_OF_HEADER)), NL))
       IN  /\ startswith(r, END_OF_HEADER)
           /\ data' = [i \in 1..Len(Take(lines, records)) |-> ReadRecord(lines[i])]
           /\ rest' = join(<<NL>>, After(lines, records))
    /\ pc' = "done"
    /\ UNCHANGED <<contents, err, records, sectionVars, isoVars>>

\* lines 359-360, 369-370
GetDataNoMarker ==
    /\ pc = "start"
    /\ ~startswith(lstrip(contents), END_OF_HEADER)
    /\ Raise("NoData")
    /\ rest' = lstrip(contents)
    /\ UNCHANGED <<contents, records, data, sectionVars, isoVars>>

DataHeads == {END_OF_HEADER,
              <<" ", NL>> \o END_OF_HEADER,
              SubSeq(END_OF_HEADER, 1, Len(END_OF_HEADER) - 1),
              TailHeading}

DataLines == {<<>>, <<"1">>, <<" ","2">>, <<" ">>}

RECURSIVE LineSeqs(_)
LineSeqs(n) ==
    IF n = 0 THEN {<<>>}
    ELSE LET shorter == LineSeqs(n - 1)
         IN  shorter \cup {<<l>> \o p : l \in DataLines, p \in shorter}

InitData ==
    /\ written \in {[lines |-> ls] : ls \in LineSeqs(MaxDataLines)}
    /\ \E h \in DataHeads, nl \in {<<>>, <<NL>>} :
           contents = h \o join(<<NL>>, written.lines) \o nl
    /\ records \in 0..MaxRecords
    /\ rest = <<>>
    /\ pc = "start"
    /\ err = ""
    /\ data = <<>>
    /\ section_name = <<>>
    /\ section_info = EmptyDict
    /\ table_name = <<>>
    /\ array_name = <<>>
    /\ column_names = <<>>
    /\ mask = <<>>
    /\ remarks = <<>>
    /\ occ = <<>>
    /\ remark_src = <<>>
    /\ time = <<>>
    /\ time_info = NoTime

NextData ==
    \/ GetData
    \/ GetDataNoMarker

SpecData == InitData /\ [][NextData]_vars

-----------------------------------------------------------------------------
(* utils.to_iso *)

Digits == <<"0","1","2","3","4","5","6","7","8","9">>

IsDigit(c) == \E i \in 1..10 : Digits[i] = c

DigitVal(c) == (CHOOSE i \in 1..10 : Digits[i] = c) - 1

IsNumber(s) == s # <<>> /\ \A i \in 1..Len(s) : IsDigit(s[i])

RECURSIVE ParseInt(_)
ParseInt(s) ==
    IF s = <<>> THEN 0
    ELSE 10 * ParseInt(SubSeq(s, 1, Len(s) - 1)) + DigitVal(s[Len(s)])

Fmt2(n) == <<Digits[((n \div 10) % 10) + 1], Digits[(n % 10) + 1]>>

Fmt4(n) == Fmt2(n \div 100) \o Fmt2(n % 100)

UTC == <<"U","T","C">>
GMT == <<"G","M","T">>
ADT == <<"A","D","T">>
MDT == <<"M","D","T">>
MST == <<"M","S","T">>
PDT == <<"P","D","T">>
PST == <<"P","S","T">>
XYZ == <<"X","Y","Z">>

\* the timezone abbreviation table: hours east of UTC
TimezoneNames == {UTC, GMT, ADT, MDT, MST, PDT, PST}

\* a table that treats every abbreviation as UTC
TimezoneOffsetAllUtc(tz) == 0

TimezoneOffset(tz) ==
    CASE tz = UTC -> 0
      [] tz = GMT -> 0
      [] tz = ADT -> 0 - 3
      [] tz = MDT -> 0 - 6
      [] tz = MST -> 0 - 7
      [] tz = PDT -> 0 - 7
      [] tz = PST -> 0 - 8

\* YYYY/MM/DD
IsDateText(s) ==
    LET p == split(s, "/")
    IN  /\ Len(p) = 3
        /\ Len(p[1]) = 4 /\ IsNumber(p[1])
        /\ Len(p[2]) = 2 /\ IsNumber(p[2])
        /\ Len(p[3]) = 2 /\ IsNumber(p[3])

\* HH:MM:SS with an optional fraction of a second
IsTimeText(s) ==
    LET p == split(s, ":")
        sec == split(p[3], ".")
    IN  /\ Len(p) = 3
        /\ Len(p[1]) = 2 /\ IsNumber(p[1])
        /\ Len(p[2]) = 2 /\ IsNumber(p[2])
        /\ Len(sec) \in {1, 2}
        /\ Len(sec[1]) = 2 /\ IsNumber(sec[1])
        /\ Len(sec) = 2 => IsNumber(sec[2])

\* the outcome of to_iso(raw): "none", "unknown_tz", "malformed" or "ok"
ToIsoOutcome(raw) ==
    LET w == split(raw, " ")
    IN  IF raw = <<>> THEN "none"
        ELSE IF w[1] \notin TimezoneNames THEN "unknown_tz"
        ELSE IF Len(w) \notin {2, 3} THEN "malformed"
        ELSE IF ~IsDateText(w[2]) THEN "malformed"
        ELSE IF Len(w) = 3 /\ ~IsTimeText(w[3]) THEN "malformed"
        ELSE "ok"

\* the timestamp to_iso(raw) returns when the outcome is "ok"
ToIsoValue(raw) ==
    LET w == split(raw, " ")
        d == split(w[2], "/")
        t == IF Len(w) = 3 THEN split(w[3], ":") ELSE <<>>
    IN  [present |-> TRUE,
         year |-> ParseInt(d[1]),
         month |-> ParseInt(d[2]),
         day |-> ParseInt(d[3]),
         hour |-> IF Len(w) = 3 THEN ParseInt(t[1]) ELSE 0,
         minute |-> IF Len(w) = 3 THEN ParseInt(t[2]) ELSE 0,
         second |-> IF Len(w) = 3 THEN ParseInt(split(t[3], ".")[1]) ELSE 0,
         utcoffset |-> TimezoneOffset(w[1])]

ToIso ==
    /\ pc = "start"
    /\ ToIsoOutcome(time) \in {"ok", "none"}
    /\ time_info' = IF ToIsoOutcome(time) = "ok" THEN ToIsoValue(time) ELSE NoTime
    /\ pc' = "done"
    /\ UNCHANGED <<contents, rest, err, time, written, sectionVars, dataVars>>

ToIsoFails ==
    /\ pc = "start"
    /\ ToIsoOutcome(time) \in {"unknown_tz", "malformed"}
    /\ Raise(IF ToIsoOutcome(time) = "unknown_tz"
             THEN "UnrecognizedTimezone" ELSE "MalformedTimestamp")
    /\ UNCHANGED <<contents, rest, time, time_info, written, sectionVars, dataVars>>

\* the text a zone, a date and a time of day are written as
WriteTime(w) ==
    LET date == Fmt4(w.year) \o <<"/">> \o Fmt2(w.month) \o <<"/">> \o Fmt2(w.day)
        clock == Fmt2(w.hour) \o <<":">> \o Fmt2(w.minute) \o <<":">> \o Fmt2(0)
    IN  CASE w.form = "empty" -> <<>>
          [] w.form = "date" -> w.tz \o <<" ">> \o date
          [] w.form = "datetime" -> w.tz \o <<" ">> \o date \o <<" ">> \o clock
          [] w.form = "datetime_ms" ->
                 w.tz \o <<" ">> \o date \o <<" ">> \o clock \o <<".","0","0","0">>
          [] w.form = "malformed" -> w.tz \o <<" ">> \o Fmt4(w.year) \o <<"-">> \o Fmt2(w.month)

InitIso ==
    /\ written \in [tz : TimezoneNames \cup {XYZ},
                    year : {1999, 2015}, month : {3, 12}, day : {1, 16},
                    hour : {0, 10}, minute : {0, 36},
                    form : {"empty", "date", "datetime", "datetime_ms", "malformed"}]
    /\ time = WriteTime(written)
    /\ time_info = NoTime
    /\ pc = "start"
    /\ err = ""
    /\ contents = <<>>
    /\ rest = <<>>
    /\ records = 0
    /\ data = <<>>
    /\ section_name = <<>>
    /\ section_info = EmptyDict
    /\ table_name = <<>>
    /\ array_name = <<>>
    /\ column_names = <<>>
    /\ mask = <<>>
    /\ remarks = <<>>
    /\ occ = <<>>
    /\ remark_src = <<>>

NextIso ==
    \/ ToIso
    \/ ToIsoFails

SpecIso == InitIso /\ [][NextIso]_vars

-----------------------------------------------------------------------------
(* Properties *)

IsSuffix(s, t) == Len(s) <= Len(t) /\ Drop(t, Len(t) - Len(s)) = s

Contains(s, p) == \E i \in 1..(Len(s) - Len(p) + 1) : SubSeq(s, i, i + Len(p) - 1) = p

Terminated == pc \in {"done", "error"}

\* C1 (as written): whenever get_section returns, the remainder begins exactly
\* at the next heading: its first character is the '*' of the heading line and
\* nothing stands before it.
C1_RemainderBeginsAtHeading ==
    pc = "done" => is_section_heading(rest)

\* C1 (amended): whenever get_section returns, the remainder is a suffix of the
\* input made of whitespace only (the blank lines and indentation that preceded
\* the heading, possibly none) followed by the next heading, which is not
\* consumed.
C1_RemainderLeadsToHeading ==
    pc = "done" =>
        /\ IsSuffix(rest, contents)
        /\ \E k \in 0..Len(rest) :
               /\ \A i \in 1..k : rest[i] \in WS
               /\ k + 2 <= Len(rest)
               /\ rest[k + 1] = "*"
               /\ rest[k + 2] \in UpperChars

\* a return with a non-empty Section and whitespace standing before the heading
C1_Witness ==
    /\ pc = "done"
    /\ DOMAIN section_info # {}
    /\ rest[1] \in WS

FirstOcc(k) ==
    occ[CHOOSE i \in 1..Len(occ) :
            occ[i].key = k /\ \A j \in 1..(i - 1) : occ[j].key # k].val

LastOcc(k) ==
    occ[CHOOSE i \in 1..Len(occ) :
            occ[i].key = k /\ \A j \in (i + 1)..Len(occ) : occ[j].key # k].val

\* C2 (as written): the value returned under a key is the one its first
\* occurrence in the section body produced; later occurrences do not overwrite
\* or reset it.
C2_FirstOccurrenceWins ==
    pc = "done" =>
        \A k \in DOMAIN section_info : ValEq(section_info[k], FirstOcc(k))

\* C2 (amended): the keys of the mapping are the keys that occurred, and the
\* value held under a key is the one its last occurrence produced: a later
\* occurrence overwrites (a later table or array resets) the earlier value.
C2_LastOccurrenceWins ==
    /\ DOMAIN section_info = {occ[i].key : i \in 1..Len(occ)}
    /\ \A k \in DOMAIN section_info : ValEq(section_info[k], LastOcc(k))

\* a return after one key occurred twice with different values
C2_Witness ==
    /\ pc = "done"
    /\ \E i, j \in 1..Len(occ) :
           /\ i < j
           /\ occ[i].key = occ[j].key
           /\ ~ValEq(occ[i].val, occ[j].val)

\* C3: get_data never returns a record list shorter than record_count (it
\* fails when fewer than record_count non-blank lines follow the marker).
C3_NeverFewerThanRecordCount ==
    pc = "done" => Len(data) >= records

\* C4: a table whose mask line is empty or has no fill character is rejected:
\* the parse never goes on to read rows for it with the table stored.
C4_NoFillMaskRejected ==
    (pc = "TABLE_BODY" /\ table_name \in DOMAIN section_info) =>
        \E i \in 1..Len(mask) : mask[i]

\* C5: when the body loop is at a line start and the input is exhausted, the
\* call returns the Section with an empty remainder instead of failing.
C5_EndOfInputReturns ==
    [][(pc = "LINE_START" /\ lstrip(rest) = <<>>) =>
           (pc' = "done" /\ lstrip(rest') = <<>>)]_vars

\* the heading check of get_section decided character by character, with
\* `same` comparing one character of the buffer with one of the name
HeadingDecision(same(_, _)) ==
    LET t == lstrip(contents)
        n == Len(section_name)
        present == /\ Len(t) >= n + 2
                   /\ t[1] = "*"
                   /\ \A i \in 1..n : same(t[i + 1], section_name[i])
                   /\ t[n + 2] = NL
    IN  pc = "start" =>
            IF present
            THEN pc' = "LINE_START" /\ rest' = Drop(t, n + 2) /\ err' = ""
            ELSE /\ pc' = "error" /\ err' = "MissingSection"
                 /\ section_info' = EmptyDict /\ occ' = <<>>

SameIgnoringCase(c, d) == upperChar(c) = upperChar(d)

SameAsUpper(c, d) == c = upperChar(d)

\* C6 (as written): the heading is accepted and consumed exactly when the
\* trimmed buffer begins with '*', the section name compared without regard to
\* case, and a line break; otherwise MissingSectionError and nothing parsed.
C6_HeadingCaseInsensitive ==
    [][HeadingDecision(SameIgnoringCase)]_vars

\* C6 (amended): the heading is accepted and consumed exactly when the trimmed
\* buffer begins with '*', the upper-cased section name character for character
\* (the buffer's own case is not folded), and a line break; otherwise
\* MissingSectionError and nothing parsed.
C6_HeadingExactUpper ==
    [][HeadingDecision(SameAsUpper)]_vars

\* a lower-case section name accepted against an upper-case heading that
\* follows leading whitespace
C6_Witness ==
    /\ pc = "LINE_START"
    /\ section_name = NameLower
    /\ contents[1] \in WS
    /\ rest = Drop(contents, Len(HeadIndented))

NonEmptyLine(l) == l # <<>>

TestZones == <<<<UTC, 0>>, <<GMT, 0>>, <<ADT, 0 - 3>>, <<MDT, 0 - 6>>,
               <<MST, 0 - 7>>, <<PDT, 0 - 7>>, <<PST, 0 - 8>>>>

\* C8: for every abbreviation of the table, to_iso of "<abbreviation> <date>
\* [<time>]" returns a timestamp whose UTC offset is that abbreviation's hours
\* and whose year, month and day are the ones written.
C8_ZoneAndDate ==
    \A z \in 1..Len(TestZones) :
        (/\ pc # "start"
         /\ written.form \in {"date", "datetime", "datetime_ms"}
         /\ written.tz = TestZones[z][1]) =>
            /\ pc = "done"
            /\ time_info.present
            /\ time_info.utcoffset = TestZones[z][2]
            /\ time_info.year = written.year
            /\ time_info.month = written.month
            /\ time_info.day = written.day

\* a PST date without a time of day, converted
C8_Witness ==
    /\ pc = "done"
    /\ written.form = "date"
    /\ written.tz = PST
    /\ time_info.present
    /\ time_info.utcoffset = 0 - 8
    /\ time_info.hour = 0

\* the lines of src strictly after its first line and before the first
\* following line that begins with $END
RECURSIVE UntilEnd(_)
UntilEnd(lines) ==
    IF lines = <<>> \/ startswith(Head(lines), END_TOKEN) THEN <<>>
    ELSE <<Head(lines)>> \o UntilEnd(Tail(lines))

LinesBetween(src) == UntilEnd(Tail(split(src, NL)))

\* C9: the value stored under the remarks key is exactly the lines strictly
\* between the $REMARKS marker line and the $END line, joined with line breaks.
C9_RemarksVerbatim ==
    (pc \in {"LINE_START", "TABLE_BODY", "ARRAY_BODY", "done"}
        /\ REMARKS \in DOMAIN section_info) =>
        section_info[REMARKS].text = join(<<NL>>, LinesBetween(remark_src))

\* C10: `rest` is always a suffix of the input, every iteration of the body
\* loop and of the table, array and remarks loops strictly shortens it, and
\* nothing runs on after a return or a raise; the length of `rest` then bounds
\* the number of iterations, so no call runs forever.
C10_ShrinksAndTerminates ==
    /\ [](pc # "start" => IsSuffix(rest, contents))
    /\ [][(pc # "start" /\ ~Terminated') => Len(rest') < Len(rest)]_vars
    /\ [][~Terminated]_vars

\* a call that ended by raising inside an $ARRAY block that has no $END
C10_Witness ==
    /\ pc = "error"
    /\ err = "Unpack"
    /\ occ # <<>>
    /\ occ[Len(occ)].val.kind = "array"
    /\ Len(occ[Len(occ)].val.items) >= 2
    /\ ~Contains(contents, END_TOKEN)

====
